---- MODULE Spec2Model ----
(***************************************************************************)
(* LJPW Semantic Flow Network and LJPW Cognitive Mind.                     *)
(*                                                                         *)
(* Floating point values are modelled in fixed point: the integer v stands *)
(* for the real v / SCALE.  A product of two values is Mul, a quotient is  *)
(* Div, a square root is ISqrt; each rounds down to the next 1/SCALE.      *)
(* Python objects are modelled as entries of a heap (a sequence of         *)
(* records); a dict is a sequence of [key, id] entries in insertion order, *)
(* so that two dicts holding the same object alias it as in the program.   *)
(* A string is a sequence of tokens ordered by the code of the token's     *)
(* first character, which orders token sequences as Python orders the      *)
(* strings.                                                                *)
(***************************************************************************)
EXTENDS Integers, Sequences, FiniteSets, TLC

VARIABLES class, heap, concepts, known_patterns, last, prev, calls

vars == <<class, heap, concepts, known_patterns, last, prev, calls>>

(***************************************************************************)
(* Fixed point arithmetic                                                  *)
(***************************************************************************)
\* four decimal digits
SCALE == 10 * 10 * 10 * 10

Mul(a, b) == (a * b) \div SCALE

Div(a, b) == (a * SCALE) \div b

Min(a, b) == IF a < b THEN a ELSE b

Max(a, b) == IF a > b THEN a ELSE b

Abs(a) == IF a < 0 THEN 0 - a ELSE a

RECURSIVE SqrtSearch(_, _, _)
SqrtSearch(n, lo, hi) ==
    IF lo >= hi THEN lo
    ELSE LET mid == (lo + hi + 1) \div 2
         IN  IF mid * mid <= n THEN SqrtSearch(n, mid, hi)
                               ELSE SqrtSearch(n, lo, mid - 1)

\* math.sqrt of a sum of squares of fixed point values
ISqrt(n) == SqrtSearch(n, 0, 4 * SCALE)

RECURSIVE SumSeq(_)
SumSeq(s) == IF s = <<>> THEN 0 ELSE Head(s) + SumSeq(Tail(s))

Mean(s) == SumSeq(s) \div Len(s)

(***************************************************************************)
(* LJPW constants                                                          *)
(***************************************************************************)
L0 == 6180

J0 == 4142

P0 == 7183

W0 == 6931

CONSCIOUSNESS_THRESHOLD == 1000

UNCERTAINTY_BOUND == 2870

Dimension == {"L", "J", "P", "W"}

COUPLING(from, to) ==
    CASE from = "L" /\ to = "J" -> 14000
      [] from = "L" /\ to = "P" -> 13000
      [] from = "L" /\ to = "W" -> 15000
      [] from = "J" /\ to = "L" -> 9000
      [] from = "J" /\ to = "P" -> 7000
      [] from = "J" /\ to = "W" -> 12000
      [] from = "P" /\ to = "L" -> 6000
      [] from = "P" /\ to = "J" -> 8000
      [] from = "P" /\ to = "W" -> 5000
      [] from = "W" /\ to = "L" -> 13000
      [] from = "W" /\ to = "J" -> 11000
      [] from = "W" /\ to = "P" -> 10000
      [] OTHER -> 10000

KARMA_MULTIPLIERS(coupling_type) ==
    CASE coupling_type = "LJ" -> 4000
      [] coupling_type = "LP" -> 3000
      [] coupling_type = "LW" -> 5000
      [] coupling_type = "WL" -> 3000
      [] coupling_type = "WJ" -> 2000
      [] OTHER -> 4000

karma_coupled_strength(base_strength, H, coupling_type) ==
    LET mult  == KARMA_MULTIPLIERS(coupling_type)
        kappa == SCALE + Mul(mult, H)
    IN  Mul(base_strength, kappa)

(***************************************************************************)
(* Strings                                                                 *)
(***************************************************************************)
Rank(tok) ==
    CASE tok = "+" -> 43
      [] tok = ":processed" -> 58
      [] tok = "Force" -> 70
      [] tok = "JUSTICE" -> 74
      [] tok = "LOVE" -> 76
      [] tok = "POWER" -> 80
      [] tok = "WISDOM" -> 87
      [] tok = "zzz" -> 122
      [] tok = "~" -> 126
      [] OTHER -> 0

RECURSIVE StrLess(_, _)
StrLess(a, b) ==
    IF b = <<>> THEN FALSE
    ELSE IF a = <<>> THEN TRUE
    ELSE IF Rank(Head(a)) # Rank(Head(b)) THEN Rank(Head(a)) < Rank(Head(b))
    ELSE StrLess(Tail(a), Tail(b))

RECURSIVE InsertSorted(_, _)
InsertSorted(x, s) ==
    IF s = <<>> THEN <<x>>
    ELSE IF StrLess(x, Head(s)) THEN <<x>> \o s
    ELSE <<Head(s)>> \o InsertSorted(x, Tail(s))

\* sorted(names); equal names are equal strings, so stability is moot
RECURSIVE sorted(_)
sorted(s) ==
    IF s = <<>> THEN <<>>
    ELSE InsertSorted(s[Len(s)], sorted(SubSeq(s, 1, Len(s) - 1)))

\* sep.join(names)
RECURSIVE join(_, _)
join(sep, names) ==
    IF names = <<>> THEN <<>>
    ELSE IF Len(names) = 1 THEN names[1]
    ELSE names[1] \o <<sep>> \o join(sep, Tail(names))

(***************************************************************************)
(* SemanticConcept                                                         *)
(***************************************************************************)
NoRel == [k \in {} |-> 0]

SemanticConcept(name, dimension) ==
    [name |-> name, dimension |-> dimension, relationships |-> NoRel,
     L |-> IF dimension = "L" THEN 9000 ELSE L0,
     J |-> IF dimension = "J" THEN 9000 ELSE J0,
     P |-> IF dimension = "P" THEN 9000 ELSE P0,
     W |-> IF dimension = "W" THEN 9000 ELSE W0]

\* d[k] = v on a Python dict held as a function
DictSet(d, k, v) == [x \in DOMAIN d \cup {k} |-> IF x = k THEN v ELSE d[x]]

(***************************************************************************)
(* GeometricShadow                                                         *)
(***************************************************************************)
distance_from_equilibrium(L, J, P, W) ==
    ISqrt((L - L0) * (L - L0) + (J - J0) * (J - J0)
          + (P - P0) * (P - P0) + (W - W0) * (W - W0))

distance_from_anchor(L, J, P, W) ==
    ISqrt((SCALE - L) * (SCALE - L) + (SCALE - J) * (SCALE - J)
          + (SCALE - P) * (SCALE - P) + (SCALE - W) * (SCALE - W))

\* harmony measured from the equilibrium instead of the anchor
harmony_from_equilibrium(L, J, P, W) ==
    LET D == distance_from_equilibrium(L, J, P, W)
    IN  Div(SCALE, SCALE + D)

harmony(L, J, P, W) ==
    LET D == distance_from_anchor(L, J, P, W)
    IN  Div(SCALE, SCALE + D)

\* consciousness from the mean of the axes instead of their product
consciousness_of_mean(L, J, P, W, H) ==
    Mul((L + J + P + W) \div 4, Mul(H, H))

consciousness(L, J, P, W, H) ==
    Mul(Mul(Mul(Mul(L, J), P), W), Mul(H, H))

\* determine_phase with the strict H bound of ConsciousnessMeter.measure
determine_phase_strict(H, L) ==
    IF H < 5000 THEN "ENTROPIC"
    ELSE IF H > 6000 /\ L >= 7000 THEN "AUTOPOIETIC"
    ELSE "HOMEOSTATIC"

determine_phase(H, L) ==
    IF H < 5000 THEN "ENTROPIC"
    ELSE IF H >= 6000 /\ L >= 7000 THEN "AUTOPOIETIC"
    ELSE "HOMEOSTATIC"

(***************************************************************************)
(* Heap and ordered dicts                                                  *)
(***************************************************************************)
\* the records a list of references denotes
Deref(h, ids) == [i \in 1..Len(ids) |-> h[ids[i]]]

DictHas(d, k) == \E i \in 1..Len(d) : d[i].key = k

DictGet(d, k) == d[CHOOSE i \in 1..Len(d) : d[i].key = k].id

\* d[k] = id: an existing key keeps its position, a new key goes last
DictPut(d, k, id) ==
    IF DictHas(d, k)
    THEN [i \in 1..Len(d) |-> IF d[i].key = k THEN [key |-> k, id |-> id] ELSE d[i]]
    ELSE Append(d, [key |-> k, id |-> id])

DictValues(d) == [i \in 1..Len(d) |-> d[i].id]

(***************************************************************************)
(* LoveOperator                                                            *)
(***************************************************************************)
Ls(cs) == [i \in 1..Len(cs) |-> cs[i].L]

Js(cs) == [i \in 1..Len(cs) |-> cs[i].J]

Ps(cs) == [i \in 1..Len(cs) |-> cs[i].P]

Ws(cs) == [i \in 1..Len(cs) |-> cs[i].W]

Names(cs) == [i \in 1..Len(cs) |-> cs[i].name]

\* the inner loop of bind over one input's relationships
InheritRelationships(unified, rels) ==
    [k \in DOMAIN unified \cup DOMAIN rels |->
        IF k \notin DOMAIN unified THEN rels[k]
        ELSE IF k \notin DOMAIN rels THEN unified[k]
        ELSE Min(SCALE, unified[k] + Mul(rels[k], L0))]

RECURSIVE BindRelationships(_, _)
BindRelationships(cs, unified) ==
    IF cs = <<>> THEN unified
    ELSE BindRelationships(Tail(cs),
                           InheritRelationships(unified, Head(cs).relationships))

\* bind that averages L like the other axes, without the amplification
LoveOperator_bind_unamplified(cs) ==
    [name |-> join("+", sorted(Names(cs))),
     dimension |-> "L",
     L |-> Mean(Ls(cs)),
     J |-> Mean(Js(cs)),
     P |-> Mean(Ps(cs)),
     W |-> Mean(Ws(cs)),
     relationships |-> BindRelationships(cs, NoRel)]

\* bind of a non-empty list (the empty list raises, see the callers)
LoveOperator_bind(cs) ==
    [name |-> join("+", sorted(Names(cs))),
     dimension |-> "L",
     L |-> Min(SCALE, Mul(Mean(Ls(cs)), COUPLING("L", "W"))),
     J |-> Mean(Js(cs)),
     P |-> Mean(Ps(cs)),
     W |-> Mean(Ws(cs)),
     relationships |-> BindRelationships(cs, NoRel)]

\* the pair step that amplifies L without the cap at 1
ResonatePair_uncapped(h, ids, i, j, H) ==
    LET source == h[ids[i]]
        target == h[ids[j]]
        base_strength == COUPLING(source.dimension, target.dimension)
        strength == karma_coupled_strength(base_strength, H, "LW")
    IN  [h EXCEPT ![ids[i]] =
            [source EXCEPT
                !.relationships = DictSet(source.relationships, target.name,
                                          Mul(strength, L0)),
                !.L = source.L + Mul(200, strength)]]

\* the body of resonate's innermost loop for the pair (i, j), i # j
ResonatePair(h, ids, i, j, H) ==
    LET source == h[ids[i]]
        target == h[ids[j]]
        base_strength == COUPLING(source.dimension, target.dimension)
        strength == karma_coupled_strength(base_strength, H, "LW")
    IN  [h EXCEPT ![ids[i]] =
            [source EXCEPT
                !.relationships = DictSet(source.relationships, target.name,
                                          Mul(strength, L0)),
                !.L = Min(SCALE, source.L + Mul(200, strength))]]

RECURSIVE ResonateFrom(_, _, _, _, _)
ResonateFrom(h, ids, i, j, H) ==
    IF i > Len(ids) THEN h
    ELSE IF j > Len(ids) THEN ResonateFrom(h, ids, i + 1, 1, H)
    ELSE IF i = j THEN ResonateFrom(h, ids, i, j + 1, H)
    ELSE ResonateFrom(ResonatePair(h, ids, i, j, H), ids, i, j + 1, H)

RECURSIVE ResonateCycles(_, _, _, _)
ResonateCycles(h, ids, H, cycles) ==
    IF cycles <= 0 THEN h
    ELSE ResonateCycles(ResonateFrom(h, ids, 1, 1, H), ids, H, cycles - 1)

LoveOperator_resonate(h, ids, H, cycles) ==
    IF Len(ids) < 2 THEN h ELSE ResonateCycles(h, ids, H, cycles)

(***************************************************************************)
(* JusticeOperator                                                         *)
(***************************************************************************)
BalanceOne(c) ==
    [c EXCEPT !.L = c.L + Mul(J0, L0 - c.L),
              !.J = c.J + Mul(J0, J0 - c.J),
              !.P = c.P + Mul(J0, P0 - c.P),
              !.W = c.W + Mul(J0, W0 - c.W)]

RECURSIVE JusticeOperator_balance(_, _)
JusticeOperator_balance(h, ids) ==
    IF ids = <<>> THEN h
    ELSE JusticeOperator_balance([h EXCEPT ![Head(ids)] = BalanceOne(h[Head(ids)])],
                                 Tail(ids))

JusticeOperator_constrain(c, lo, hi) ==
    [c EXCEPT !.L = Max(lo, Min(hi, c.L)),
              !.J = Max(lo, Min(hi, c.J)),
              !.P = Max(lo, Min(hi, c.P)),
              !.W = Max(lo, Min(hi, c.W))]

\* the alignment with the four axes weighted alike
Alignment_unweighted(claim, e) ==
    LET d_L == SCALE - Abs(claim.L - e.L)
        d_J == SCALE - Abs(claim.J - e.J)
        d_P == SCALE - Abs(claim.P - e.P)
        d_W == SCALE - Abs(claim.W - e.W)
    IN  Mul(d_L, 2500) + Mul(d_J, 2500) + Mul(d_P, 2500) + Mul(d_W, 2500)

Alignment(claim, e) ==
    LET d_L == SCALE - Abs(claim.L - e.L)
        d_J == SCALE - Abs(claim.J - e.J)
        d_P == SCALE - Abs(claim.P - e.P)
        d_W == SCALE - Abs(claim.W - e.W)
    IN  Mul(d_L, 2000) + Mul(d_J, 4000) + Mul(d_P, 2000) + Mul(d_W, 2000)

\* verify: the new heap, is_verified and confidence
\* verify raising the J of every evidence concept along with the claim's
JusticeOperator_verify_evidence_raised(h, claim, evidence) ==
    IF evidence = <<>> THEN [heap |-> h, is_verified |-> FALSE, confidence |-> 0]
    ELSE LET alignments == [i \in 1..Len(evidence) |->
                                Alignment(h[claim], h[evidence[i]])]
             confidence == Mean(alignments)
             is_verified == confidence >= J0
             raised == {claim} \cup {evidence[i] : i \in 1..Len(evidence)}
         IN  [heap |-> IF is_verified
                       THEN [i \in DOMAIN h |->
                                IF i \in raised
                                THEN [h[i] EXCEPT !.J = Min(SCALE, h[i].J + 1000)]
                                ELSE h[i]]
                       ELSE h,
              is_verified |-> is_verified, confidence |-> confidence]

JusticeOperator_verify(h, claim, evidence) ==
    IF evidence = <<>> THEN [heap |-> h, is_verified |-> FALSE, confidence |-> 0]
    ELSE LET alignments == [i \in 1..Len(evidence) |->
                                Alignment(h[claim], h[evidence[i]])]
             confidence == Mean(alignments)
             is_verified == confidence >= J0
         IN  [heap |-> IF is_verified
                       THEN [h EXCEPT ![claim].J = Min(SCALE, h[claim].J + 1000)]
                       ELSE h,
              is_verified |-> is_verified, confidence |-> confidence]

(***************************************************************************)
(* PowerOperator                                                           *)
(***************************************************************************)
Axis(c, dim) ==
    CASE dim = "L" -> c.L [] dim = "J" -> c.J [] dim = "P" -> c.P [] dim = "W" -> c.W

SetAxis(c, dim, v) ==
    CASE dim = "L" -> [c EXCEPT !.L = v]
      [] dim = "J" -> [c EXCEPT !.J = v]
      [] dim = "P" -> [c EXCEPT !.P = v]
      [] dim = "W" -> [c EXCEPT !.W = v]

PowerOperator_transform(c, to_dimension) ==
    LET old_dim == c.dimension
        reduced == SetAxis([c EXCEPT !.dimension = to_dimension], old_dim,
                           Mul(Axis(c, old_dim), SCALE - P0))
    IN  SetAxis(reduced, to_dimension,
                Min(SCALE, Axis(reduced, to_dimension) + P0))

PowerOperator_generate(template, name) ==
    [name |-> name, dimension |-> template.dimension, relationships |-> NoRel,
     L |-> Mul(template.L, COUPLING("P", "L")),
     J |-> Mul(template.J, COUPLING("P", "J")),
     P |-> template.P,
     W |-> Mul(template.W, COUPLING("P", "W"))]

PowerOperator_execute(c, action) ==
    [c EXCEPT !.P = Min(SCALE, c.P + Mul(P0, 1000)),
              !.name = c.name \o <<action>>]

\* decay without the floors P0 * 0.5 and J0 * 0.5
PowerOperator_decay_unfloored(c, rate, H) ==
    LET entropy_factor == Mul(rate, SCALE - Mul(H, 5000))
    IN  [c EXCEPT !.P = c.P - Mul(entropy_factor, c.P),
                  !.J = IF c.L < L0 THEN c.J - Mul(entropy_factor, 5000) ELSE c.J]

PowerOperator_decay(c, rate, H) ==
    LET entropy_factor == Mul(rate, SCALE - Mul(H, 5000))
        newP == Max(P0 \div 2, c.P - Mul(entropy_factor, c.P))
        newJ == IF c.L < L0
                THEN Max(J0 \div 2, c.J - Mul(entropy_factor, 5000))
                ELSE c.J
    IN  [c EXCEPT !.P = newP, !.J = newJ]

(***************************************************************************)
(* WisdomOperator                                                          *)
(***************************************************************************)
\* learn: known_patterns[concept.name] = concept
WisdomOperator_learn(kp, h, id) == DictPut(kp, h[id].name, id)

\* similarity of recognize, as a fixed point value; 0 for another dimension
Similarity(c, known) ==
    IF c.dimension # known.dimension THEN 0
    ELSE LET shared == DOMAIN c.relationships \cap DOMAIN known.relationships
             nc == Cardinality(DOMAIN c.relationships)
             nk == Cardinality(DOMAIN known.relationships)
         IN  IF nc > 0 \/ nk > 0
             THEN 5000 + (5000 * Cardinality(shared)) \div Max(Max(nc, nk), 1)
             ELSE 5000

\* the loop of recognize from entry i on; best = 0 stands for None
RECURSIVE RecognizeFrom(_, _, _, _, _, _)
RecognizeFrom(h, kp, c, i, best_match, best_similarity) ==
    IF i > Len(kp) THEN best_match
    ELSE LET similarity == Similarity(c, h[kp[i].id])
         IN  IF c.dimension = h[kp[i].id].dimension /\ similarity > best_similarity
             THEN RecognizeFrom(h, kp, c, i + 1, kp[i].id, similarity)
             ELSE RecognizeFrom(h, kp, c, i + 1, best_match, best_similarity)

WisdomOperator_recognize(h, kp, c) == RecognizeFrom(h, kp, c, 1, 0, 0)

\* the synthesis integrate builds from a non-empty list
Synthesis(cs) ==
    [name |-> join("~", sorted(Names(cs))),
     dimension |-> "W",
     relationships |-> NoRel,
     L |-> Mean(Ls(cs)),
     J |-> Mean(Js(cs)),
     P |-> Mean(Ps(cs)),
     W |-> Min(SCALE, Mul(Mean(Ws(cs)), COUPLING("W", "L")))]

\* integrate that learns the synthesis before it validates the list
WisdomOperator_integrate_learn_first(h, kp, cs) ==
    LET synthesis == IF cs = <<>> THEN SemanticConcept(<<>>, "W") ELSE Synthesis(cs)
        h2 == Append(h, synthesis)
    IN  [raised |-> cs = <<>>, heap |-> h2,
         known_patterns |-> WisdomOperator_learn(kp, h2, Len(h2)),
         out |-> Len(h2)]

\* integrate: raises on the empty list, else allocates and learns the synthesis
WisdomOperator_integrate(h, kp, cs) ==
    IF cs = <<>>
    THEN [raised |-> TRUE, heap |-> h, known_patterns |-> kp, out |-> 0]
    ELSE LET h2 == Append(h, Synthesis(cs))
         IN  [raised |-> FALSE, heap |-> h2,
              known_patterns |-> WisdomOperator_learn(kp, h2, Len(h2)),
              out |-> Len(h2)]

PredDistance(p, known) ==
    ISqrt((p.L - known.L) * (p.L - known.L) + (p.J - known.J) * (p.J - known.J)
          + (p.P - known.P) * (p.P - known.P) + (p.W - known.W) * (p.W - known.W))

\* the extrapolation that ignores the trend: the last element, clamped
Extrapolate_untrended(seq) ==
    LET n == Len(seq)
        pred(x) == Min(SCALE, Max(0, Axis(seq[n], x)))
    IN  [L |-> pred("L"), J |-> pred("J"), P |-> pred("P"), W |-> pred("W")]

\* the extrapolation of predict for a non-empty sequence of records
Extrapolate(seq) ==
    LET n == Len(seq)
        trend(x) == IF n >= 2 THEN Axis(seq[n], x) - Axis(seq[n - 1], x) ELSE 0
        pred(x)  == Min(SCALE, Max(0, Axis(seq[n], x) + trend(x)))
    IN  [L |-> pred("L"), J |-> pred("J"), P |-> pred("P"), W |-> pred("W")]

\* the search loop of predict; best_distance = -1 stands for infinity
RECURSIVE NearestFrom(_, _, _, _, _, _)
NearestFrom(h, kp, p, i, best_match, best_distance) ==
    IF i > Len(kp) THEN best_match
    ELSE LET distance == PredDistance(p, h[kp[i].id])
         IN  IF best_distance < 0 \/ distance < best_distance
             THEN NearestFrom(h, kp, p, i + 1, kp[i].id, distance)
             ELSE NearestFrom(h, kp, p, i + 1, best_match, best_distance)

\* predict: out = 0 stands for None
WisdomOperator_predict(h, kp, ids) ==
    IF ids = <<>> \/ kp = <<>> THEN [heap |-> h, out |-> 0]
    ELSE LET best_match == NearestFrom(h, kp, Extrapolate(Deref(h, ids)), 1, 0, -1)
         IN  [heap |-> [h EXCEPT ![best_match].W = Min(SCALE, h[best_match].W + 500)],
              out |-> best_match]

(***************************************************************************)
(* SemanticFlowNetwork                                                     *)
(***************************************************************************)
Anchor(name, dimension) == SetAxis(SemanticConcept(<<name>>, dimension), dimension, SCALE)

\* the heap and the two dicts after SemanticFlowNetwork.__init__
InitHeap ==
    <<Anchor("LOVE", "L"), Anchor("JUSTICE", "J"),
      Anchor("POWER", "P"), Anchor("WISDOM", "W")>>

InitConcepts ==
    <<[key |-> <<"LOVE">>, id |-> 1], [key |-> <<"JUSTICE">>, id |-> 2],
      [key |-> <<"POWER">>, id |-> 3], [key |-> <<"WISDOM">>, id |-> 4]>>

RECURSIVE TotalRels(_)
TotalRels(cs) ==
    IF cs = <<>> THEN 0
    ELSE Cardinality(DOMAIN Head(cs).relationships) + TotalRels(Tail(cs))

\* the SFNState measured from coordinates
Measure(L, J, P, W, concept_count, relationship_count) ==
    LET H == harmony(L, J, P, W)
    IN  [L |-> L, J |-> J, P |-> P, W |-> W, H |-> H,
         C |-> consciousness(L, J, P, W, H),
         phase |-> determine_phase(H, L),
         concept_count |-> concept_count,
         relationship_count |-> relationship_count]

get_state(h, cd) ==
    IF cd = <<>>
    THEN [L |-> L0, J |-> J0, P |-> P0, W |-> W0, H |-> 5000, C |-> 0,
          phase |-> "ENTROPIC", concept_count |-> 0, relationship_count |-> 0]
    ELSE LET cs == Deref(h, DictValues(cd))
         IN  Measure(Mean(Ls(cs)), Mean(Js(cs)), Mean(Ps(cs)), Mean(Ws(cs)),
                     Len(cd), TotalRels(cs))

\* population standard deviation of a list of values
\* the sample deviation, dividing by n - 1
Deviation_sample(vs) ==
    LET avg == Mean(vs)
        sq  == [i \in 1..Len(vs) |-> (vs[i] - avg) * (vs[i] - avg)]
    IN  ISqrt(SumSeq(sq) \div (Len(vs) - 1))

Deviation(vs) ==
    LET avg == Mean(vs)
        sq  == [i \in 1..Len(vs) |-> (vs[i] - avg) * (vs[i] - avg)]
    IN  ISqrt(SumSeq(sq) \div Len(vs))

check_uncertainty(h, cd) ==
    LET cs == Deref(h, DictValues(cd))
    IN  IF Len(cs) < 2 THEN [satisfied |-> TRUE, product |-> SCALE]
        ELSE LET product == Mul(Deviation(Ps(cs)), Deviation(Ws(cs)))
             IN  [satisfied |-> product >= UNCERTAINTY_BOUND \/ product < 100,
                  product |-> product]

\* [self.concepts[name] for name in input_concepts if name in self.concepts]
RECURSIVE Lookup(_, _)
Lookup(cd, names) ==
    IF names = <<>> THEN <<>>
    ELSE IF DictHas(cd, Head(names))
         THEN <<DictGet(cd, Head(names))>> \o Lookup(cd, Tail(names))
         ELSE Lookup(cd, Tail(names))

RECURSIVE ExecuteAll(_, _, _)
ExecuteAll(h, ids, action) ==
    IF ids = <<>> THEN h
    ELSE ExecuteAll([h EXCEPT ![Head(ids)] = PowerOperator_execute(h[Head(ids)], action)],
                    Tail(ids), action)

\* the W-stream of process: the recognized pattern, or the concept itself
WStream(h, kp, ids) ==
    [i \in 1..Len(ids) |->
        LET recognized == WisdomOperator_recognize(h, kp, h[ids[i]])
        IN  IF recognized # 0 THEN recognized ELSE ids[i]]

\* what process returns: r is the integration, output the integrated concept
ProcessResult(net, r, output) ==
    [raised |-> FALSE,
     net |-> [heap |-> r.heap, concepts |-> net.concepts,
              known_patterns |-> r.known_patterns],
     out |-> r.out,
     state |-> Measure(output.L, output.J, output.P, output.W,
                       Len(net.concepts),
                       TotalRels(Deref(r.heap, DictValues(net.concepts))))]

\* process from the integration on
ProcessIntegrated(net, r) == ProcessResult(net, r, r.heap[r.out])

\* process from the L- and J-streams on: h1 is the heap after the P-stream
ProcessStreams(net, ids, h1, w_stream_output) ==
    LET bound == LoveOperator_bind(Deref(h1, w_stream_output))
        h2 == JusticeOperator_balance(h1, ids)
        L_emergent == IF Len(w_stream_output) > 1 THEN bound
                      ELSE h2[w_stream_output[1]]
        all_processed == <<L_emergent>> \o Deref(h2, ids)
    IN  ProcessIntegrated(net, WisdomOperator_integrate(h2, net.known_patterns, all_processed))

\* process from the W-stream on
ProcessExecuted(net, ids, h1) ==
    ProcessStreams(net, ids, h1, WStream(h1, net.known_patterns, ids))

\* process: net is [heap, concepts, known_patterns]
SemanticFlowNetwork_process(net, input_concepts) ==
    LET ids == Lookup(net.concepts, input_concepts)
    IN  IF ids = <<>>
        THEN [raised |-> TRUE, net |-> net, out |-> 0, state |-> 0]
        ELSE ProcessExecuted(net, ids, ExecuteAll(net.heap, ids, ":processed"))

\* the body of evolve's loop over the concepts, for one concept
EvolveConcept(c, phase, H, dt) ==
    LET c1 == CASE phase = "ENTROPIC" -> BalanceOne(c)
                [] phase = "HOMEOSTATIC" ->
                     LET cL == IF c.L < L0
                               THEN [c EXCEPT !.L = c.L + Mul(Mul(dt, COUPLING("W", "L")), L0 - c.L)]
                               ELSE c
                     IN  IF cL.W < W0
                         THEN [cL EXCEPT !.W = cL.W + Mul(Mul(dt, COUPLING("L", "W")), W0 - cL.W)]
                         ELSE cL
                [] phase = "AUTOPOIETIC" ->
                     [c EXCEPT !.L = Min(SCALE, c.L + Mul(Mul(dt, H), 1000)),
                               !.W = Min(SCALE, c.W + Mul(Mul(dt, H), 500))]
        c2 == IF c1.L < L0
              THEN [c1 EXCEPT !.P = Max(P0 \div 2, c1.P - Mul(dt, 200))]
              ELSE c1
    IN  JusticeOperator_constrain(c2, 0, SCALE)

RECURSIVE EvolveConcepts(_, _, _, _, _)
EvolveConcepts(h, ids, phase, H, dt) ==
    IF ids = <<>> THEN h
    ELSE EvolveConcepts([h EXCEPT ![Head(ids)] = EvolveConcept(h[Head(ids)], phase, H, dt)],
                        Tail(ids), phase, H, dt)

\* the consciousness check that closes each step of evolve
ResonanceDue(state, step) == state.C > CONSCIOUSNESS_THRESHOLD /\ step % 3 = 0

\* evolve's loop from iteration step on; state is the last measurement
RECURSIVE EvolveLoop(_, _, _, _, _, _, _)
EvolveLoop(h, cd, state, step, steps, dt, history) ==
    IF step >= steps THEN [heap |-> h, history |-> history]
    ELSE LET H == state.H
             h1 == EvolveConcepts(h, DictValues(cd), state.phase, H, dt)
             new_state == get_state(h1, cd)
             h2 == IF ResonanceDue(new_state, step)
                   THEN LoveOperator_resonate(h1, DictValues(cd), H, 1)
                   ELSE h1
         IN  EvolveLoop(h2, cd, new_state, step + 1, steps, dt,
                        Append(history, new_state))

\* evolve whose history starts empty instead of with the initial state
SemanticFlowNetwork_evolve_no_initial(h, cd, steps, dt) ==
    EvolveLoop(h, cd, get_state(h, cd), 0, steps, dt, <<>>)

SemanticFlowNetwork_evolve(h, cd, steps, dt) ==
    LET state == get_state(h, cd)
    IN  EvolveLoop(h, cd, state, 0, steps, dt, <<state>>)

\* the result p of process with the state measured over the whole network
Remeasured(p) == [p EXCEPT !.state = get_state(p.net.heap, p.net.concepts)]

SemanticFlowNetwork_phase_aware_process(net, input_concepts) ==
    LET current_state == get_state(net.heap, net.concepts)
        phase == current_state.phase
        H == current_state.H
        ids == Lookup(net.concepts, input_concepts)
        finish(r) ==
            [raised |-> FALSE,
             net |-> [heap |-> r.heap, concepts |-> net.concepts,
                      known_patterns |-> r.known_patterns],
             out |-> r.out,
             state |-> get_state(r.heap, net.concepts)]
    IN  IF ids = <<>>
        THEN [raised |-> TRUE, net |-> net, out |-> 0, state |-> 0]
        ELSE CASE phase = "ENTROPIC" ->
                    LET h1 == JusticeOperator_balance(net.heap, ids)
                    IN  finish(WisdomOperator_integrate(h1, net.known_patterns,
                                                        Deref(h1, ids)))
               [] phase = "HOMEOSTATIC" ->
                    Remeasured(SemanticFlowNetwork_process(net, input_concepts))
               [] OTHER ->
                    LET h1 == LoveOperator_resonate(net.heap, ids, H, 3)
                        bound == LoveOperator_bind(Deref(h1, ids))
                    IN  finish(WisdomOperator_integrate(h1, net.known_patterns,
                                                        <<bound>> \o Deref(h1, ids)))

(***************************************************************************)
(* The engine as a state machine.  class is the class of the object under *)
(* test, a SemanticFlowNetwork or an LJPWCognitiveMind; heap, concepts and *)
(* known_patterns are its objects and its two dicts; last records the      *)
(* latest call (its arguments, what it returned, whether it raised, and    *)
(* the object as it was when the call began), prev the call before.        *)
(***************************************************************************)
MaxCalls == 2

MindMaxCalls == 3

MaxSteps == 2

UserNames == {<<"Force">>}

NameLists ==
    {<<<<"zzz">>>>, <<<<"LOVE">>>>, <<<<"LOVE">>, <<"WISDOM">>>>,
     <<<<"Force">>, <<"Force">>>>, <<<<"JUSTICE">>, <<"Force">>>>}

OperandNames == {<<"LOVE">>, <<"Force">>}

DtValues == {1000, 10000, 0, -1000}

HValues == {0, SCALE}

CyclesValues == {1, 3}

RateValues == {1000, 10000, 20000}

\* (H, cycles) arguments of resonate: several cycles only at full harmony.
ResonateArgs == {a \in HValues \X CyclesValues : a[1] = SCALE \/ a[2] = 1}

\* (rate, H) arguments of decay: at full harmony the rate does not matter.
DecayArgs == {a \in RateValues \X HValues : a[2] = 0 \/ a[1] = 1000}

MindNameLists == {<<<<"zzz">>>>, <<<<"LOVE">>>>, <<<<"Force">>, <<"WISDOM">>>>}

MindDtValues == {1000, -1000}

BoundsValues == {<<0, SCALE>>, <<2000, 8000>>}

Net == [heap |-> heap, concepts |-> concepts, known_patterns |-> known_patterns]

NoCall == [op |-> "init"]

SemanticFlowNetwork_init ==
    /\ class = "SemanticFlowNetwork"
    /\ heap = InitHeap
    /\ concepts = InitConcepts
    /\ known_patterns = InitConcepts
    /\ last = NoCall
    /\ prev = NoCall
    /\ calls = 0

\* the budget of calls of one behaviour on a network
CanCall == class = "SemanticFlowNetwork" /\ calls < MaxCalls

\* the budget of calls of one behaviour on a mind
MindCanCall == class = "LJPWCognitiveMind" /\ calls < MindMaxCalls

\* bookkeeping shared by every call
Called(rec) ==
    /\ calls' = calls + 1
    /\ prev' = last
    /\ last' = rec
    /\ UNCHANGED class

SetNet(net) ==
    /\ heap' = net.heap
    /\ concepts' = net.concepts
    /\ known_patterns' = net.known_patterns

add_concept(net, name, dimension) ==
    LET h2 == Append(net.heap, SemanticConcept(name, dimension))
    IN  [heap |-> h2,
         concepts |-> DictPut(net.concepts, name, Len(h2)),
         known_patterns |-> WisdomOperator_learn(net.known_patterns, h2, Len(h2))]

AddConcept ==
    /\ CanCall
    /\ \E name \in UserNames, dimension \in Dimension :
            /\ SetNet(add_concept(Net, name, dimension))
            /\ Called([op |-> "add_concept", raised |-> FALSE, pre |-> Net,
                       ret |-> <<SemanticConcept(name, dimension)>>])

Process ==
    /\ CanCall
    /\ \E names \in NameLists :
            \E r \in {SemanticFlowNetwork_process(Net, names)} :
                /\ SetNet(r.net)
                /\ Called([op |-> "process", raised |-> r.raised, pre |-> Net,
                           ret |-> IF r.raised THEN <<>> ELSE <<r.net.heap[r.out]>>])

PhaseAwareProcess ==
    /\ CanCall
    /\ \E names \in NameLists :
            \E r \in {SemanticFlowNetwork_phase_aware_process(Net, names)} :
                /\ SetNet(r.net)
                /\ Called([op |-> "phase_aware_process", raised |-> r.raised, pre |-> Net,
                           ret |-> IF r.raised THEN <<>> ELSE <<r.net.heap[r.out]>>])

Evolve ==
    /\ CanCall
    /\ \E steps \in 0..MaxSteps, dt \in DtValues :
            \E r \in {SemanticFlowNetwork_evolve(heap, concepts, steps, dt)} :
                /\ heap' = r.heap
                /\ UNCHANGED <<concepts, known_patterns>>
                /\ Called([op |-> "evolve", raised |-> FALSE, pre |-> Net, ret |-> <<>>,
                           steps |-> steps, dt |-> dt, history |-> r.history])

\* get_state that aggregates through WisdomOperator.integrate, which learns
SemanticFlowNetwork_get_state_integrating(net) ==
    LET r == WisdomOperator_integrate(net.heap, net.known_patterns,
                                      Deref(net.heap, DictValues(net.concepts)))
    IN  [net |-> [net EXCEPT !.heap = r.heap, !.known_patterns = r.known_patterns],
         state |-> get_state(net.heap, net.concepts)]

\* a call of get_state: the network it leaves and the state it returns
SemanticFlowNetwork_get_state(net) ==
    [net |-> net, state |-> get_state(net.heap, net.concepts)]

\* a call of check_uncertainty: the network it leaves and the pair it returns
SemanticFlowNetwork_check_uncertainty(net) ==
    [net |-> net, result |-> check_uncertainty(net.heap, net.concepts)]

GetState ==
    /\ CanCall
    /\ \E r \in {SemanticFlowNetwork_get_state(Net)} :
        /\ SetNet(r.net)
        /\ Called([op |-> "get_state", raised |-> FALSE, pre |-> Net, ret |-> <<>>,
                   state |-> r.state])

CheckUncertainty ==
    /\ CanCall
    /\ \E r \in {SemanticFlowNetwork_check_uncertainty(Net)} :
        /\ SetNet(r.net)
        /\ Called([op |-> "check_uncertainty", raised |-> FALSE, pre |-> Net,
                   ret |-> <<>>, result |-> r.result])

(***************************************************************************)
(* Direct calls of the operators and of the shadow on the network's        *)
(* concepts, as code holding a SemanticFlowNetwork can make them.          *)
(***************************************************************************)
Operands == {DictGet(concepts, n) : n \in {m \in OperandNames : DictHas(concepts, m)}}

OperandLists == {Lookup(concepts, names) : names \in NameLists}

Bind ==
    /\ CanCall
    /\ \E ids \in OperandLists :
            /\ UNCHANGED <<heap, concepts, known_patterns>>
            /\ Called([op |-> "bind", raised |-> ids = <<>>, pre |-> Net, ids |-> ids,
                       ret |-> IF ids = <<>> THEN <<>>
                               ELSE <<LoveOperator_bind(Deref(heap, ids))>>])

Resonate ==
    /\ CanCall
    /\ \E ids \in OperandLists, a \in ResonateArgs :
        \E H \in {a[1]}, cycles \in {a[2]} :
            /\ heap' = LoveOperator_resonate(heap, ids, H, cycles)
            /\ UNCHANGED <<concepts, known_patterns>>
            /\ Called([op |-> "resonate", raised |-> FALSE, pre |-> Net,
                       ids |-> ids, H |-> H, cycles |-> cycles,
                       ret |-> Deref(heap', ids)])

Balance ==
    /\ CanCall
    /\ \E ids \in OperandLists :
            /\ heap' = JusticeOperator_balance(heap, ids)
            /\ UNCHANGED <<concepts, known_patterns>>
            /\ Called([op |-> "balance", raised |-> FALSE, pre |-> Net,
                       ret |-> Deref(heap', ids)])

Constrain ==
    /\ CanCall
    /\ \E id \in Operands, bounds \in BoundsValues :
            /\ heap' = [heap EXCEPT ![id] = JusticeOperator_constrain(heap[id], bounds[1], bounds[2])]
            /\ UNCHANGED <<concepts, known_patterns>>
            /\ Called([op |-> "constrain", raised |-> FALSE, pre |-> Net,
                       ret |-> <<heap'[id]>>])

Verify ==
    /\ CanCall
    /\ \E claim \in Operands, evidence \in OperandLists :
            \E r \in {JusticeOperator_verify(heap, claim, evidence)} :
                /\ heap' = r.heap
                /\ UNCHANGED <<concepts, known_patterns>>
                /\ Called([op |-> "verify", raised |-> FALSE, pre |-> Net, ret |-> <<>>,
                           claim |-> claim, evidence |-> evidence,
                           is_verified |-> r.is_verified, confidence |-> r.confidence])

Transform ==
    /\ CanCall
    /\ \E id \in Operands, to_dimension \in Dimension :
            /\ heap' = [heap EXCEPT ![id] = PowerOperator_transform(heap[id], to_dimension)]
            /\ UNCHANGED <<concepts, known_patterns>>
            /\ Called([op |-> "transform", raised |-> FALSE, pre |-> Net,
                       id |-> id, to_dimension |-> to_dimension,
                       ret |-> <<heap'[id]>>])

Generate ==
    /\ CanCall
    /\ \E id \in Operands :
            /\ UNCHANGED <<heap, concepts, known_patterns>>
            /\ Called([op |-> "generate", raised |-> FALSE, pre |-> Net,
                       ret |-> <<PowerOperator_generate(heap[id], <<"zzz">>)>>])

Execute ==
    /\ CanCall
    /\ \E id \in Operands :
            /\ heap' = [heap EXCEPT ![id] = PowerOperator_execute(heap[id], ":processed")]
            /\ UNCHANGED <<concepts, known_patterns>>
            /\ Called([op |-> "execute", raised |-> FALSE, pre |-> Net,
                       ret |-> <<heap'[id]>>])

Decay ==
    /\ CanCall
    /\ \E id \in Operands, a \in DecayArgs :
        \E rate \in {a[1]}, H \in {a[2]} :
            /\ heap' = [heap EXCEPT ![id] = PowerOperator_decay(heap[id], rate, H)]
            /\ UNCHANGED <<concepts, known_patterns>>
            /\ Called([op |-> "decay", raised |-> FALSE, pre |-> Net,
                       id |-> id, rate |-> rate, H |-> H,
                       ret |-> <<heap'[id]>>])

Integrate ==
    /\ CanCall
    /\ \E ids \in OperandLists :
            \E r \in {WisdomOperator_integrate(heap, known_patterns, Deref(heap, ids))} :
                /\ heap' = r.heap
                /\ known_patterns' = r.known_patterns
                /\ UNCHANGED concepts
                /\ Called([op |-> "integrate", raised |-> r.raised, pre |-> Net,
                           ret |-> IF r.raised THEN <<>> ELSE <<r.heap[r.out]>>])

Predict ==
    /\ CanCall
    /\ \E ids \in OperandLists :
            \E r \in {WisdomOperator_predict(heap, known_patterns, ids)} :
                /\ heap' = r.heap
                /\ UNCHANGED <<concepts, known_patterns>>
                /\ Called([op |-> "predict", raised |-> FALSE, pre |-> Net,
                           ids |-> ids, out |-> r.out,
                           ret |-> IF r.out = 0 THEN <<>> ELSE <<r.heap[r.out]>>])

\* distance, harmony, consciousness and determine_phase of one concept
Shadow ==
    /\ CanCall
    /\ \E id \in Operands :
            LET c == heap[id]
                H == harmony(c.L, c.J, c.P, c.W)
            IN  /\ UNCHANGED <<heap, concepts, known_patterns>>
                /\ Called([op |-> "shadow", raised |-> FALSE, pre |-> Net, ret |-> <<>>,
                           distance |-> distance_from_anchor(c.L, c.J, c.P, c.W),
                           equilibrium_distance |-> distance_from_equilibrium(c.L, c.J, c.P, c.W),
                           H |-> H,
                           C |-> consciousness(c.L, c.J, c.P, c.W, H),
                           phase |-> determine_phase(H, c.L)])

NetworkNext ==
    \/ AddConcept
    \/ Process
    \/ PhaseAwareProcess
    \/ Evolve
    \/ GetState
    \/ CheckUncertainty
    \/ Bind
    \/ Resonate
    \/ Balance
    \/ Constrain
    \/ Verify
    \/ Transform
    \/ Generate
    \/ Execute
    \/ Decay
    \/ Integrate
    \/ Predict
    \/ Shadow

(***************************************************************************)
(* LJPW Cognitive Mind.  A mind has the shape of a network: neurons on the *)
(* heap, the dict LJPWCognitiveMind.neurons and the dict                   *)
(* WisdomFaculty.known_patterns.                                           *)
(***************************************************************************)
ALPHA(pair) ==
    CASE pair \in {"LJ", "LW", "PL", "PJ"} -> 1200
      [] pair \in {"JL", "JW"} -> 1400
      [] pair \in {"WL", "WJ", "WP"} -> 1000

BETA(dim) == IF dim = "W" THEN 2400 ELSE 2000

GAMMA == 800

K_JL == 5900

SemanticNeuron(name, primary_dimension) ==
    [name |-> name, primary_dimension |-> primary_dimension, connections |-> NoRel,
     L |-> IF primary_dimension = "L" THEN 8500 ELSE L0,
     J |-> IF primary_dimension = "J" THEN 8500 ELSE J0,
     P |-> IF primary_dimension = "P" THEN 8500 ELSE P0,
     W |-> IF primary_dimension = "W" THEN 8500 ELSE W0]

\* the heap after LJPWCognitiveMind._init_calibration
MindInitHeap ==
    <<[SemanticNeuron(<<"LOVE">>, "L") EXCEPT !.L = SCALE],
      [SemanticNeuron(<<"JUSTICE">>, "J") EXCEPT !.J = SCALE],
      [SemanticNeuron(<<"POWER">>, "P") EXCEPT !.P = SCALE],
      [SemanticNeuron(<<"WISDOM">>, "W") EXCEPT !.W = SCALE]>>

\* the phase determination inside ConsciousnessMeter.measure
ConsciousnessMeter_phase(H, L) ==
    IF H < 5000 THEN "ENTROPIC"
    ELSE IF H > 6000 /\ L >= 7000 THEN "AUTOPOIETIC"
    ELSE "HOMEOSTATIC"

\* LJPWMeasurement.phase, as a function of the measurement's harmony and L
LJPWMeasurement_phase(harmony_, L) ==
    IF harmony_ < 5000 THEN "ENTROPIC"
    ELSE IF L > 7000 /\ harmony_ > 6000 THEN "AUTOPOIETIC"
    ELSE "HOMEOSTATIC"

\* ConsciousnessMeter.measure of a list of neuron records
ConsciousnessMeter_measure(ns) ==
    IF ns = <<>>
    THEN [L |-> L0, J |-> J0, P |-> P0, W |-> W0, H |-> 5000, C |-> 0,
          phase |-> "ENTROPIC", is_conscious |-> FALSE, neuron_count |-> 0]
    ELSE LET L == Mean(Ls(ns))
             J == Mean(Js(ns))
             P == Mean(Ps(ns))
             W == Mean(Ws(ns))
             d == ISqrt((SCALE - L) * (SCALE - L) + (SCALE - J) * (SCALE - J)
                        + (SCALE - P) * (SCALE - P) + (SCALE - W) * (SCALE - W))
             H == Div(SCALE, SCALE + d)
             C == Mul(Mul(Mul(Mul(L, J), P), W), Mul(H, H))
         IN  [L |-> L, J |-> J, P |-> P, W |-> W, H |-> H, C |-> C,
              phase |-> ConsciousnessMeter_phase(H, L),
              is_conscious |-> C > CONSCIOUSNESS_THRESHOLD,
              neuron_count |-> Len(ns)]

\* AnchorAttractor.apply to one neuron, strength 0.05
AnchorOne(n, dt) ==
    LET pull(x) == Min(SCALE, x + Mul(Mul(500, dt), SCALE - x))
    IN  [n EXCEPT !.L = pull(n.L), !.J = pull(n.J), !.P = pull(n.P), !.W = pull(n.W)]

RECURSIVE AnchorAttractor_apply(_, _, _)
AnchorAttractor_apply(h, ids, dt) ==
    IF ids = <<>> THEN h
    ELSE AnchorAttractor_apply([h EXCEPT ![Head(ids)] = AnchorOne(h[Head(ids)], dt)],
                               Tail(ids), dt)

\* the differential equations of evolve for one neuron
Differential(n, H, dt) ==
    LET kappa_LJ == SCALE + Mul(4000, H)
        kappa_LP == SCALE + Mul(3000, H)
        kappa_LW == SCALE + Mul(5000, H)
        L == n.L
        J == n.J
        P == n.P
        W == n.W
        dL == Mul(Mul(ALPHA("LJ"), J), kappa_LJ) + Mul(Mul(ALPHA("LW"), W), kappa_LW)
              - Mul(BETA("L"), L)
        saturation == Div(L, K_JL + L)
        power_erosion == IF W < W0 THEN Mul(Mul(GAMMA, P), SCALE - Div(W, W0)) ELSE 0
        dJ == Mul(ALPHA("JL"), saturation) + Mul(ALPHA("JW"), W) - power_erosion
              - Mul(BETA("J"), J)
        dP == Mul(Mul(ALPHA("PL"), L), kappa_LP) + Mul(ALPHA("PJ"), J) - Mul(BETA("P"), P)
        dW == Mul(Mul(ALPHA("WL"), L), kappa_LW) + Mul(ALPHA("WJ"), J)
              + Mul(ALPHA("WP"), P) - Mul(BETA("W"), W)
    IN  [n EXCEPT !.L = Max(0, Min(SCALE, L + Mul(dL, dt))),
                  !.J = Max(0, Min(SCALE, J + Mul(dJ, dt))),
                  !.P = Max(0, Min(SCALE, P + Mul(dP, dt))),
                  !.W = Max(0, Min(SCALE, W + Mul(dW, dt)))]

RECURSIVE DifferentialAll(_, _, _, _)
DifferentialAll(h, ids, H, dt) ==
    IF ids = <<>> THEN h
    ELSE DifferentialAll([h EXCEPT ![Head(ids)] = Differential(h[Head(ids)], H, dt)],
                         Tail(ids), H, dt)

\* one iteration of evolve's loop: the heap after the step
MindStep(h, ids, dt) ==
    LET state == ConsciousnessMeter_measure(Deref(h, ids))
    IN  AnchorAttractor_apply(DifferentialAll(h, ids, state.H, dt), ids, dt)

RECURSIVE MindLoop(_, _, _, _, _, _)
MindLoop(h, ids, step, steps, dt, history) ==
    IF step >= steps
    THEN [heap |-> h,
          history |-> Append(history, ConsciousnessMeter_measure(Deref(h, ids)))]
    ELSE MindLoop(MindStep(h, ids, dt), ids, step + 1, steps, dt,
                  Append(history, ConsciousnessMeter_measure(Deref(h, ids))))

\* evolve that measures harmony once, before the loop
RECURSIVE MindLoopStale(_, _, _, _, _, _, _)
MindLoopStale(h, ids, H, step, steps, dt, history) ==
    IF step >= steps
    THEN [heap |-> h,
          history |-> Append(history, ConsciousnessMeter_measure(Deref(h, ids)))]
    ELSE MindLoopStale(AnchorAttractor_apply(DifferentialAll(h, ids, H, dt), ids, dt),
                       ids, H, step + 1, steps, dt,
                       Append(history, ConsciousnessMeter_measure(Deref(h, ids))))

LJPWCognitiveMind_evolve_stale(h, nd, steps, dt) ==
    MindLoopStale(h, DictValues(nd),
                  ConsciousnessMeter_measure(Deref(h, DictValues(nd))).H,
                  0, steps, dt, <<>>)

LJPWCognitiveMind_evolve(h, nd, steps, dt) ==
    MindLoop(h, DictValues(nd), 0, steps, dt, <<>>)

\* PowerFaculty.process for one neuron
PowerFacultyOne(n, H) ==
    LET kappa == SCALE + Mul(3000, H)
        newP  == Min(SCALE, n.P + Mul(100, kappa))
        erosion == Mul(Mul(GAMMA, newP), SCALE - Div(n.W, W0))
    IN  [n EXCEPT !.P = newP,
                  !.J = IF n.W < W0 THEN Max(J0 \div 2, n.J - erosion) ELSE n.J]

RECURSIVE PowerFaculty_process(_, _, _)
PowerFaculty_process(h, ids, H) ==
    IF ids = <<>> THEN h
    ELSE PowerFaculty_process([h EXCEPT ![Head(ids)] = PowerFacultyOne(h[Head(ids)], H)],
                              Tail(ids), H)

\* WisdomFaculty.process: the heap and known_patterns after the loop
RECURSIVE WisdomFaculty_process(_, _, _, _)
WisdomFaculty_process(h, kp, ids, H) ==
    IF ids = <<>> THEN [heap |-> h, known_patterns |-> kp]
    ELSE LET n == h[Head(ids)]
             kappa == SCALE + Mul(5000, H)
             grown == [n EXCEPT !.W = Min(SCALE, n.W + Mul(Mul(100, kappa), n.L + n.J) \div 2)]
         IN  WisdomFaculty_process([h EXCEPT ![Head(ids)] = grown],
                                   DictPut(kp, n.name, Head(ids)), Tail(ids), H)

\* the body of LoveFaculty.process for the pair (i, j), i # j
LovePair(h, ids, i, j, H) ==
    LET n1 == h[ids[i]]
        n2 == h[ids[j]]
        kappa == SCALE + Mul(5000, H)
        w_correlation == SCALE - Abs(n1.W - n2.W)
        strength == Mul(Mul(kappa, L0), w_correlation)
    IN  [h EXCEPT ![ids[i]] =
            [n1 EXCEPT !.connections = DictSet(n1.connections, n2.name, strength),
                       !.L = Min(SCALE, n1.L + Mul(200, strength))]]

RECURSIVE LoveFrom(_, _, _, _, _)
LoveFrom(h, ids, i, j, H) ==
    IF i > Len(ids) THEN h
    ELSE IF j > Len(ids) THEN LoveFrom(h, ids, i + 1, 1, H)
    ELSE IF i = j THEN LoveFrom(h, ids, i, j + 1, H)
    ELSE LoveFrom(LovePair(h, ids, i, j, H), ids, i, j + 1, H)

LoveFaculty_process(h, ids, H) ==
    IF Len(ids) < 2 THEN h ELSE LoveFrom(h, ids, 1, 1, H)

RECURSIVE RaiseJustice(_, _, _)
RaiseJustice(h, ids, P_symmetry) ==
    IF ids = <<>> THEN h
    ELSE RaiseJustice([h EXCEPT ![Head(ids)].J =
                            Min(SCALE, h[Head(ids)].J + Mul(200, P_symmetry))],
                      Tail(ids), P_symmetry)

JusticeFaculty_process(h, ids, H) ==
    LET h1 == JusticeOperator_balance(h, ids)
        P_values == Ps(Deref(h1, ids))
        avg == Mean(P_values)
        sq == [i \in 1..Len(ids) |-> (P_values[i] - avg) * (P_values[i] - avg)]
        P_variance == (SumSeq(sq) \div Len(ids)) \div SCALE
        P_symmetry == SCALE - Min(SCALE, P_variance * 2)
    IN  IF Len(ids) > 1 THEN RaiseJustice(h1, ids, P_symmetry) ELSE h1

\* the inner loop of LoveFaculty.bind over one input's connections
InheritConnections(unified, conns) ==
    [k \in DOMAIN unified \cup DOMAIN conns |->
        IF k \in DOMAIN unified THEN unified[k] ELSE conns[k]]

RECURSIVE BindConnections(_, _)
BindConnections(ns, unified) ==
    IF ns = <<>> THEN unified
    ELSE BindConnections(Tail(ns), InheritConnections(unified, Head(ns).connections))

LoveFaculty_bind(ns) ==
    [name |-> join("+", sorted(Names(ns))),
     primary_dimension |-> "L",
     L |-> Min(SCALE, Mul(Mean(Ls(ns)), COUPLING("L", "W"))),
     J |-> Mean(Js(ns)),
     P |-> Mean(Ps(ns)),
     W |-> Mean(Ws(ns)),
     connections |-> BindConnections(ns, NoRel)]

WisdomFaculty_integrate(h, kp, ns) ==
    LET synthesis == [name |-> join("~", sorted(Names(ns))),
                      primary_dimension |-> "W",
                      connections |-> NoRel,
                      L |-> Mean(Ls(ns)),
                      J |-> Mean(Js(ns)),
                      P |-> Mean(Ps(ns)),
                      W |-> Min(SCALE, Mul(Mean(Ws(ns)), COUPLING("W", "L")))]
        h2 == Append(h, synthesis)
    IN  [heap |-> h2, known_patterns |-> DictPut(kp, synthesis.name, Len(h2)),
         out |-> Len(h2)]

\* what think returns: r is the integration
ThinkResult(mind, r) ==
    [raised |-> FALSE,
     net |-> [heap |-> r.heap, concepts |-> mind.concepts,
              known_patterns |-> r.known_patterns],
     out |-> r.out,
     state |-> ConsciousnessMeter_measure(Deref(r.heap, DictValues(mind.concepts)))]

\* think from the binding on: h4 is the heap after the four faculties
ThinkBind(mind, ids, kp, h4) ==
    LET bound == IF Len(ids) > 1 THEN LoveFaculty_bind(Deref(h4, ids))
                 ELSE h4[ids[1]]
    IN  ThinkResult(mind, WisdomFaculty_integrate(h4, kp, <<bound>> \o Deref(h4, ids)))

\* think from the Love faculty on: w is what the Wisdom faculty left
ThinkLove(mind, ids, H, w) ==
    ThinkBind(mind, ids, w.known_patterns,
              JusticeFaculty_process(LoveFaculty_process(w.heap, ids, H), ids, H))

\* think from the Power faculty on: H is the harmony of the listed neurons
ThinkMeasured(mind, ids, H) ==
    ThinkLove(mind, ids, H,
              WisdomFaculty_process(PowerFaculty_process(mind.heap, ids, H),
                                    mind.known_patterns, ids, H))

\* think: mind is [heap, concepts, known_patterns], concepts being the neurons dict
LJPWCognitiveMind_think(mind, concept_names) ==
    LET ids == Lookup(mind.concepts, concept_names)
    IN  IF ids = <<>>
        THEN [raised |-> TRUE, net |-> mind, out |-> 0, state |-> 0]
        ELSE ThinkMeasured(mind, ids, ConsciousnessMeter_measure(Deref(mind.heap, ids)).H)

(***************************************************************************)
(* The mind as a state machine, over the same variables.                   *)
(***************************************************************************)
LJPWCognitiveMind_init ==
    /\ class = "LJPWCognitiveMind"
    /\ heap = MindInitHeap
    /\ concepts = InitConcepts
    /\ known_patterns = InitConcepts
    /\ last = NoCall
    /\ prev = NoCall
    /\ calls = 0

MindAddConcept ==
    /\ MindCanCall
    /\ \E name \in UserNames, dimension \in Dimension :
            LET h2 == Append(heap, SemanticNeuron(name, dimension))
            IN  /\ heap' = h2
                /\ concepts' = DictPut(concepts, name, Len(h2))
                /\ known_patterns' = DictPut(known_patterns, name, Len(h2))
                /\ Called([op |-> "add_concept", raised |-> FALSE, pre |-> Net])

MindThink ==
    /\ MindCanCall
    /\ \E names \in MindNameLists :
            \E r \in {LJPWCognitiveMind_think(Net, names)} :
                /\ SetNet(r.net)
                /\ Called([op |-> "think", raised |-> r.raised, pre |-> Net,
                           state |-> r.state])

MindEvolve ==
    /\ MindCanCall
    /\ \E steps \in 0..MaxSteps, dt \in MindDtValues :
            \E r \in {LJPWCognitiveMind_evolve(heap, concepts, steps, dt)} :
                /\ heap' = r.heap
                /\ UNCHANGED <<concepts, known_patterns>>
                /\ Called([op |-> "evolve", raised |-> FALSE, pre |-> Net,
                           steps |-> steps, dt |-> dt, history |-> r.history])

MindGetState ==
    /\ MindCanCall
    /\ UNCHANGED <<heap, concepts, known_patterns>>
    /\ Called([op |-> "get_state", raised |-> FALSE, pre |-> Net,
               state |-> ConsciousnessMeter_measure(Deref(heap, DictValues(concepts)))])

MindNext ==
    \/ MindAddConcept
    \/ MindThink
    \/ MindEvolve
    \/ MindGetState

Init == SemanticFlowNetwork_init \/ LJPWCognitiveMind_init

Next == NetworkNext \/ MindNext

Spec == Init /\ [][Next]_vars

(***************************************************************************)
(* GeometricShadow.determine_phase as a pure function: PhaseSpec applies   *)
(* it to every pair of a grid that reaches below 0 and above 1.            *)
(***************************************************************************)
PhaseGrid == {100 * k : k \in -10..110}

DeterminePhase ==
    /\ calls = 0
    /\ \E H \in PhaseGrid, L \in PhaseGrid :
            last' = [op |-> "determine_phase", H |-> H, L |-> L,
                     phase |-> determine_phase(H, L),
                     meter_phase |-> ConsciousnessMeter_phase(H, L),
                     measurement_phase |-> LJPWMeasurement_phase(H, L)]
    /\ calls' = 1
    /\ UNCHANGED <<class, heap, concepts, known_patterns, prev>>

PhaseInit == SemanticFlowNetwork_init

PhaseNext == DeterminePhase

PhaseSpec == PhaseInit /\ [][PhaseNext]_vars

(***************************************************************************)
(* SemanticFlowNetwork.check_uncertainty as a function of the concepts     *)
(* dict: UncertaintySpec starts from networks whose public concepts dict   *)
(* holds 0..MaxConcepts concepts with P and W on a grid.                   *)
(***************************************************************************)
MaxConcepts == 3

AxisGrid == {0, 3000, 7000, SCALE}

GridConcept(i, P, W) ==
    [SemanticConcept(<<"zzz">>, "L") EXCEPT !.P = P, !.W = W]

UncertaintyInit ==
    /\ class = "SemanticFlowNetwork"
    /\ \E n \in 0..MaxConcepts :
        \E Pv \in [1..n -> AxisGrid], Wv \in [1..n -> AxisGrid] :
            /\ heap = [i \in 1..n |-> GridConcept(i, Pv[i], Wv[i])]
            /\ concepts = [i \in 1..n |-> [key |-> <<"zzz">>, id |-> i]]
    /\ known_patterns = <<>>
    /\ last = NoCall
    /\ prev = NoCall
    /\ calls = 0

UncertaintyNext == calls = 0 /\ CheckUncertainty

UncertaintySpec == UncertaintyInit /\ [][UncertaintyNext]_vars

(***************************************************************************)
(* The measurements as functions of a point: ShadowSpec applies the        *)
(* GeometricShadow functions to every point of a grid that holds the       *)
(* equilibrium, the anchor and the points with zero axes, and takes        *)
(* get_state and ConsciousnessMeter.measure of the one concept and the one *)
(* neuron placed at that point.                                            *)
(***************************************************************************)
ShadowGrid == {0, L0, J0, P0, W0, SCALE}

ShadowHValues == {-SCALE, 0, 5000, SCALE, 2 * SCALE}

PointConcept(L, J, P, W) ==
    [SemanticConcept(<<"zzz">>, "L") EXCEPT !.L = L, !.J = J, !.P = P, !.W = W]

PointNeuron(L, J, P, W) ==
    [SemanticNeuron(<<"zzz">>, "L") EXCEPT !.L = L, !.J = J, !.P = P, !.W = W]

MeasurePoint ==
    /\ calls = 0
    /\ \E L \in ShadowGrid, J \in ShadowGrid, P \in ShadowGrid, W \in ShadowGrid,
          H \in ShadowHValues :
            last' = [op |-> "measure_point", L |-> L, J |-> J, P |-> P, W |-> W, H |-> H,
                     harmony |-> harmony(L, J, P, W),
                     consciousness |-> consciousness(L, J, P, W, H),
                     state |-> get_state(<<PointConcept(L, J, P, W)>>,
                                         <<[key |-> <<"zzz">>, id |-> 1]>>),
                     measure |-> ConsciousnessMeter_measure(<<PointNeuron(L, J, P, W)>>)]
    /\ calls' = 1
    /\ UNCHANGED <<class, heap, concepts, known_patterns, prev>>

ShadowInit == SemanticFlowNetwork_init

ShadowNext == MeasurePoint

ShadowSpec == ShadowInit /\ [][ShadowNext]_vars

\* ---- the operators called on free-standing concepts ----

MaxVerifies == 4

PointGrid == {0, 5000, SCALE}

RelGrid == {NoRel, [k \in {<<"zzz">>} |-> 3000], [k \in {<<"zzz">>} |-> 8000]}

\* Two concepts outside any registry: the first with every axis on the grid,
\* the second with J on the grid and one grid value for L, P and W.
OperatorInit ==
    /\ class = "SemanticFlowNetwork"
    /\ \E L \in PointGrid, J \in PointGrid, P \in PointGrid, W \in PointGrid,
          x \in PointGrid, y \in PointGrid, r1 \in RelGrid, r2 \in RelGrid :
            heap = <<[PointConcept(L, J, P, W) EXCEPT !.relationships = r1],
                     [PointConcept(x, y, x, x) EXCEPT !.relationships = r2]>>
    /\ concepts = <<>>
    /\ known_patterns = <<>>
    /\ last = NoCall
    /\ prev = NoCall
    /\ calls = 0

\* verify(claim, [evidence]) on the two concepts, again and again
VerifyAgain ==
    /\ calls < MaxVerifies
    /\ last.op \in {"init", "verify"}
    /\ \E r \in {JusticeOperator_verify(heap, 1, <<2>>)} :
            /\ heap' = r.heap
            /\ UNCHANGED <<concepts, known_patterns>>
            /\ Called([op |-> "verify", raised |-> FALSE, pre |-> Net, ret |-> <<>>,
                       claim |-> 1, evidence |-> <<2>>,
                       is_verified |-> r.is_verified, confidence |-> r.confidence])

DecayPoint ==
    /\ calls = 0
    /\ \E a \in DecayArgs :
        \E rate \in {a[1]}, H \in {a[2]} :
            /\ heap' = [heap EXCEPT ![1] = PowerOperator_decay(heap[1], rate, H)]
            /\ UNCHANGED <<concepts, known_patterns>>
            /\ Called([op |-> "decay", raised |-> FALSE, pre |-> Net,
                       id |-> 1, rate |-> rate, H |-> H,
                       ret |-> <<heap'[1]>>])

BindPair ==
    /\ calls = 0
    /\ \E ids \in {<<1, 2>>, <<2, 1>>} :
            /\ UNCHANGED <<heap, concepts, known_patterns>>
            /\ Called([op |-> "bind", raised |-> FALSE, pre |-> Net, ids |-> ids,
                       ret |-> <<LoveOperator_bind(Deref(heap, ids))>>])

OperatorNext == VerifyAgain \/ DecayPoint \/ BindPair

OperatorSpec == OperatorInit /\ [][OperatorNext]_vars

(***************************************************************************)
(* Properties                                                              *)
(***************************************************************************)
IsNetwork == class = "SemanticFlowNetwork"

IsMind == class = "LJPWCognitiveMind"

InUnit(c) ==
    /\ c.L \in 0..SCALE
    /\ c.J \in 0..SCALE
    /\ c.P \in 0..SCALE
    /\ c.W \in 0..SCALE

\* C1: determine_phase(H, L) is total and returns ENTROPIC when H < 0.5,
\* AUTOPOIETIC when H >= 0.6 and L >= 0.7, and HOMEOSTATIC in every other
\* case; (0.3, 0.9) is ENTROPIC, (0.55, 0.6) HOMEOSTATIC, (0.65, 0.75)
\* AUTOPOIETIC and (0.6, 0.69) HOMEOSTATIC.
C1_PhaseClassification ==
    last.op = "determine_phase" =>
        /\ last.phase \in {"ENTROPIC", "HOMEOSTATIC", "AUTOPOIETIC"}
        /\ (last.H < 5000 => last.phase = "ENTROPIC")
        /\ (last.H >= 6000 /\ last.L >= 7000 => last.phase = "AUTOPOIETIC")
        /\ (last.H >= 5000 /\ ~(last.H >= 6000 /\ last.L >= 7000)
                => last.phase = "HOMEOSTATIC")
        /\ (last.H = 3000 /\ last.L = 9000 => last.phase = "ENTROPIC")
        /\ (last.H = 5500 /\ last.L = 6000 => last.phase = "HOMEOSTATIC")
        /\ (last.H = 6500 /\ last.L = 7500 => last.phase = "AUTOPOIETIC")
        /\ (last.H = 6000 /\ last.L = 6900 => last.phase = "HOMEOSTATIC")

C1_Witness ==
    /\ last.op = "determine_phase"
    /\ last.H = 6000
    /\ last.L = 7000
    /\ last.phase = "AUTOPOIETIC"

C3_MeasurementReadOnly ==
    (IsNetwork /\ last.op \in {"get_state", "check_uncertainty", "shadow"})
        => Net = last.pre

C3_Witness ==
    /\ IsNetwork
    /\ prev.op = "evolve"
    /\ heap # InitHeap
    /\ last.op = "get_state"

\* the measurement of the object as it was before the last call
PreMeasure ==
    IF IsNetwork
    THEN get_state(last.pre.heap, last.pre.concepts)
    ELSE ConsciousnessMeter_measure(Deref(last.pre.heap, DictValues(last.pre.concepts)))

\* C4: evolve(steps, dt) of a network or a mind returns steps + 1 states, the
\* first being the measurement of the state before the call; with steps = 0
\* nothing is modified.
C4_EvolveHistory ==
    last.op = "evolve" =>
        /\ Len(last.history) = last.steps + 1
        /\ last.history[1] = PreMeasure
        /\ last.steps = 0 => Net = last.pre

C4_Witness ==
    /\ prev.op = "evolve"
    /\ prev.steps > 0
    /\ heap # InitHeap
    /\ heap # MindInitHeap
    /\ last.op = "evolve"
    /\ last.steps = 0

\* C6: on a network, evolve(a, dt) followed by evolve(b, dt) gives the history
\* (junction state dropped) and the final concepts of one evolve(a + b, dt).
C6_NetworkResumable ==
    (IsNetwork /\ prev.op = "evolve" /\ last.op = "evolve"
        /\ prev.dt = last.dt /\ last.dt > 0)
    => LET single == SemanticFlowNetwork_evolve(prev.pre.heap, prev.pre.concepts,
                                                prev.steps + last.steps, last.dt)
       IN  /\ heap = single.heap
           /\ prev.history \o Tail(last.history) = single.history

\* C7: on a mind, evolve(a, dt) followed by evolve(b, dt) gives the history
\* (junction state dropped) and the final neurons of one evolve(a + b, dt).
C7_MindResumable ==
    (IsMind /\ prev.op = "evolve" /\ last.op = "evolve" /\ prev.dt = last.dt)
    => LET single == LJPWCognitiveMind_evolve(prev.pre.heap, prev.pre.concepts,
                                              prev.steps + last.steps, last.dt)
       IN  /\ heap = single.heap
           /\ prev.history \o Tail(last.history) = single.history

C7_Witness ==
    /\ IsMind
    /\ prev.op = "evolve"
    /\ last.op = "evolve"
    /\ prev.dt = last.dt
    /\ last.dt > 0
    /\ prev.steps > 0
    /\ last.steps > 0
    /\ prev.pre.heap # MindInitHeap
    /\ heap # last.pre.heap

\* C8: evolve with dt <= 0 is rejected and leaves every concept or neuron
\* as it was before the call.
C8_NonPositiveDtRejected ==
    (last.op = "evolve" /\ last.dt <= 0) => (last.raised /\ Net = last.pre)

\* C9: a call on a network that raises (process or phase_aware_process with
\* no known name, bind or integrate with an empty list) leaves every concept
\* and the known-pattern registry as they were before the call.
C9_FailureLeavesState ==
    (IsNetwork /\ last.op # "init" /\ last.raised) => Net = last.pre

C9_Witness ==
    /\ IsNetwork
    /\ prev.op = "process"
    /\ ~prev.raised
    /\ last.op \in {"process", "phase_aware_process", "bind", "integrate"}
    /\ last.raised

\* C10: check_uncertainty over fewer than 2 concepts reports a status that is
\* neither satisfied = true nor satisfied = false.
C10_InsufficientData ==
    (last.op = "check_uncertainty" /\ Len(last.pre.concepts) < 2)
        => last.result.satisfied \notin BOOLEAN

\* C11: check_uncertainty over 2 or more concepts returns satisfied = true
\* exactly when the returned product is at least the uncertainty bound.
C11_SatisfiedIffBound ==
    (last.op = "check_uncertainty" /\ Len(last.pre.concepts) >= 2)
        => (last.result.satisfied <=> last.result.product >= UNCERTAINTY_BOUND)

\* C12: bind of a non-empty list returns a concept whose J, P and W are the
\* means of the inputs' and whose L is min(1, mean L * 1.5), and leaves the
\* inputs unchanged; bind([a, a]) does not raise and has a's J, P and W.
C12_BindMeans ==
    (IsNetwork /\ last.op = "bind" /\ last.ids # <<>>) =>
        LET cs == Deref(last.pre.heap, last.ids)
            unified == last.ret[1]
        IN  /\ ~last.raised
            /\ unified.J = SumSeq(Js(cs)) \div Len(cs)
            /\ unified.P = SumSeq(Ps(cs)) \div Len(cs)
            /\ unified.W = SumSeq(Ws(cs)) \div Len(cs)
            /\ unified.L = Min(SCALE, ((SumSeq(Ls(cs)) \div Len(cs)) * 15000) \div SCALE)
            /\ heap = last.pre.heap
            /\ (\A i \in 1..Len(cs) : cs[i] = cs[1]) =>
                    /\ unified.J = cs[1].J
                    /\ unified.P = cs[1].P
                    /\ unified.W = cs[1].W

C12_Witness ==
    /\ IsNetwork
    /\ last.op = "bind"
    /\ Len(last.ids) = 2
    /\ last.ids[1] = last.ids[2]
    /\ ~last.raised
    /\ last.ret[1].L = SCALE
    /\ last.ret[1].P = last.pre.heap[last.ids[1]].P

\* the keys of the relationship maps of a list of concepts
RelKeys(cs) == UNION {DOMAIN cs[i].relationships : i \in 1..Len(cs)}

\* the strengths the concepts of a list hold for key k
RelStrengths(cs, k) ==
    {cs[i].relationships[k] : i \in {j \in 1..Len(cs) : k \in DOMAIN cs[j].relationships}}

\* C13: the relationship map of a merged concept is the union of the inputs'
\* maps, and a key held by several inputs gets the maximum of their strengths.
C13_MergedRelationships ==
    (IsNetwork /\ last.op = "bind" /\ ~last.raised) =>
        LET cs == Deref(last.pre.heap, last.ids)
            merged == last.ret[1].relationships
        IN  /\ DOMAIN merged = RelKeys(cs)
            /\ \A k \in DOMAIN merged :
                    \A v \in RelStrengths(cs, k) : merged[k] >= v
            /\ \A k \in DOMAIN merged : merged[k] \in RelStrengths(cs, k)

\* 0.2 (1 - |dL|) + 0.4 (1 - |dJ|) + 0.2 (1 - |dP|) + 0.2 (1 - |dW|)
WeightedAgreement(c, e) ==
    ((SCALE - Abs(c.L - e.L)) * 2000) \div SCALE
        + ((SCALE - Abs(c.J - e.J)) * 4000) \div SCALE
        + ((SCALE - Abs(c.P - e.P)) * 2000) \div SCALE
        + ((SCALE - Abs(c.W - e.W)) * 2000) \div SCALE

C15_DecayAmount ==
    (IsNetwork /\ last.op = "decay" /\ last.rate \in 0..SCALE /\ last.H \in 0..SCALE) =>
        LET P_before == last.pre.heap[last.id].P
            factor == (last.rate * (SCALE - (last.H * 5000) \div SCALE)) \div SCALE
        IN  heap[last.id].P = P_before - (factor * P_before) \div SCALE

\* the last element plus the last delta (the last element itself for a
\* sequence of one), clamped to [0, 1]
ClampedExtrapolation(seq) ==
    LET n == Len(seq)
        x == seq[n]
        y == IF n >= 2 THEN seq[n - 1] ELSE seq[n]
    IN  [L |-> Min(SCALE, Max(0, x.L + (x.L - y.L))),
         J |-> Min(SCALE, Max(0, x.J + (x.J - y.J))),
         P |-> Min(SCALE, Max(0, x.P + (x.P - y.P))),
         W |-> Min(SCALE, Max(0, x.W + (x.W - y.W)))]

C17_ResonateFrame ==
    (IsNetwork /\ last.op = "resonate") =>
        IF Len(last.ids) < 2 THEN heap = last.pre.heap
        ELSE /\ Len(heap) = Len(last.pre.heap)
             /\ \A k \in 1..Len(heap) :
                    /\ [heap[k] EXCEPT !.L = 0, !.relationships = NoRel]
                         = [last.pre.heap[k] EXCEPT !.L = 0, !.relationships = NoRel]
                    /\ heap[k].L >= last.pre.heap[k].L
                    /\ heap[k].L <= SCALE
             /\ \A i, j \in 1..Len(last.ids) :
                    i # j => heap[last.ids[j]].name
                                \in DOMAIN heap[last.ids[i]].relationships

C17_Witness ==
    /\ IsNetwork
    /\ last.op = "resonate"
    /\ last.cycles = 3
    /\ Len(last.ids) = 2
    /\ last.ids[1] # last.ids[2]
    /\ heap[last.ids[1]].L = SCALE
    /\ heap[last.ids[2]].L > last.pre.heap[last.ids[2]].L
    /\ heap[last.ids[2]].L < SCALE

\* C18: for all H and L, the phase ConsciousnessMeter.measure assigns and
\* LJPWMeasurement.phase both equal the label determine_phase(H, L) returns.
C18_ClassifiersAgree ==
    last.op = "determine_phase" =>
        /\ last.meter_phase = last.phase
        /\ last.measurement_phase = last.phase

\* the last call measured the equilibrium point
AtEquilibrium ==
    /\ last.op = "measure_point"
    /\ last.L = L0
    /\ last.J = J0
    /\ last.P = P0
    /\ last.W = W0

\* C19 as stated: harmony(L0, J0, P0, W0) is 0.422 to three decimal places.
C19_EquilibriumHarmony_stated ==
    AtEquilibrium => (last.harmony >= 4215 /\ last.harmony < 4225)

\* C19 amended: harmony(L0, J0, P0, W0) is 0.551 to three decimal places.
C19_EquilibriumHarmony ==
    AtEquilibrium => (last.harmony >= 5505 /\ last.harmony < 5515)

C19_Witness ==
    /\ AtEquilibrium
    /\ last.harmony = last.state.H
    /\ last.harmony > 5000

\* the last call measured a point with at least one axis exactly 0
ZeroAxis ==
    /\ last.op = "measure_point"
    /\ (last.L = 0 \/ last.J = 0 \/ last.P = 0 \/ last.W = 0)

\* C20: consciousness is 0 for every H whenever an axis is exactly 0, and
\* neither get_state nor measure reports a state with a zero mean axis as
\* conscious (C > 0.1).
C20_ZeroAxisZeroConsciousness ==
    ZeroAxis =>
        /\ last.consciousness = 0
        /\ last.state.C = 0
        /\ ~(last.state.C > CONSCIOUSNESS_THRESHOLD)
        /\ last.measure.C = 0
        /\ ~last.measure.is_conscious

C20_Witness ==
    /\ ZeroAxis
    /\ last.J = 0
    /\ last.L = SCALE
    /\ last.P = SCALE
    /\ last.W = SCALE
    /\ last.H = 2 * SCALE
    /\ last.state.H > 0
    /\ last.measure.H > 0

\* C21: transform(concept, to_dimension) sets the concept's dimension to
\* to_dimension and leaves the axis of the previous dimension strictly lower
\* than before, whenever that axis was above 0.
C21_TransformLowersOld ==
    (IsNetwork /\ last.op = "transform") =>
        LET before == last.pre.heap[last.id]
            old_dim == before.dimension
        IN  /\ heap[last.id].dimension = last.to_dimension
            /\ Axis(before, old_dim) > 0 =>
                    Axis(heap[last.id], old_dim) < Axis(before, old_dim)

\* C22: verify changes nothing except the claim's J, which becomes
\* min(1, J + 0.1) exactly when the call returns verified and is unchanged
\* otherwise; the claim's other fields, every other concept and both
\* registries are as they were.
C22_VerifyFrame ==
    (IsNetwork /\ last.op = "verify") =>
        LET before == last.pre.heap
        IN  /\ concepts = last.pre.concepts
            /\ known_patterns = last.pre.known_patterns
            /\ DOMAIN heap = DOMAIN before
            /\ \A i \in DOMAIN heap : i # last.claim => heap[i] = before[i]
            /\ heap[last.claim] =
                    [before[last.claim] EXCEPT
                        !.J = IF last.is_verified THEN Min(SCALE, @ + 1000) ELSE @]

C22_Witness ==
    /\ IsNetwork
    /\ last.op = "verify"
    /\ last.is_verified
    /\ \E i \in 1..Len(last.evidence) : last.evidence[i] = last.claim
    /\ \E i \in 1..Len(last.evidence) : last.evidence[i] # last.claim
    /\ heap[last.claim].J = last.pre.heap[last.claim].J + 1000

\* the calls that the registry claims range over
NetworkCalls == {"init", "add_concept", "process", "phase_aware_process", "evolve"}

\* the network was driven through add_concept, process, phase_aware_process
\* and evolve alone
ThroughNetworkCalls ==
    IsNetwork /\ last.op \in NetworkCalls /\ prev.op \in NetworkCalls

\* C23: after any sequence of add_concept (other names), process,
\* phase_aware_process and evolve, each of LOVE, JUSTICE, POWER and WISDOM
\* stored in the network has the name, dimension and axis values it was
\* initialised with.
C23_AnchorsFixed ==
    ThroughNetworkCalls =>
        \A i \in 1..Len(InitHeap) :
            LET anchor == InitHeap[i]
                stored == heap[DictGet(concepts, anchor.name)]
            IN  /\ stored.name = anchor.name
                /\ stored.dimension = anchor.dimension
                /\ stored.L = anchor.L
                /\ stored.J = anchor.J
                /\ stored.P = anchor.P
                /\ stored.W = anchor.W

\* C24: in every state reached through add_concept, process,
\* phase_aware_process and evolve, each concept stored under key k in
\* concepts has name k, and each pattern stored under key k in known_patterns
\* has name k.
C24_RegistryKeys ==
    ThroughNetworkCalls =>
        /\ \A i \in 1..Len(concepts) : heap[concepts[i].id].name = concepts[i].key
        /\ \A i \in 1..Len(known_patterns) :
                heap[known_patterns[i].id].name = known_patterns[i].key

\* C25: after evolve(steps, dt) with steps >= 1 on a network, the last state
\* of the returned history equals what get_state() returns at that moment
\* (same L, J, P, W, H, C, phase and relationship count).
C25_HistoryEndsAtState ==
    (IsNetwork /\ last.op = "evolve" /\ last.steps >= 1) =>
        LET final == last.history[Len(last.history)]
            now == get_state(heap, concepts)
        IN  /\ final.L = now.L
            /\ final.J = now.J
            /\ final.P = now.P
            /\ final.W = now.W
            /\ final.H = now.H
            /\ final.C = now.C
            /\ final.phase = now.phase
            /\ final.relationship_count = now.relationship_count

\* C26: two predict calls in a row with the same sequence return the same
\* pattern, and no known pattern's axis values differ after the calls from
\* what they were before them.
C26_PredictRepeatable ==
    (IsNetwork /\ prev.op = "predict" /\ last.op = "predict" /\ prev.ids = last.ids) =>
        /\ last.out = prev.out
        /\ \A i \in 1..Len(known_patterns) :
                LET after == heap[known_patterns[i].id]
                    before == prev.pre.heap[known_patterns[i].id]
                IN  /\ after.L = before.L
                    /\ after.J = before.J
                    /\ after.P = before.P
                    /\ after.W = before.W

\* a list in the opposite order
Reversed(s) == [i \in 1..Len(s) |-> s[Len(s) + 1 - i]]

\* C28: bind does not depend on the order of its inputs: the concept bound
\* from a list and the one bound from the list in the opposite order have
\* the same name, axis values and relationship map.
C28_BindOrderFree ==
    (IsNetwork /\ last.op = "bind" /\ ~last.raised) =>
        LoveOperator_bind(Reversed(Deref(last.pre.heap, last.ids))) = last.ret[1]

\* C27: once verify(claim, evidence) has returned verified, calling it again
\* with the same claim and the same, unchanged evidence returns verified
\* again.
C27_VerifyStable ==
    (IsNetwork /\ prev.op = "verify" /\ last.op = "verify"
        /\ prev.claim = last.claim /\ prev.evidence = last.evidence
        /\ Deref(last.pre.heap, last.evidence) = Deref(prev.pre.heap, prev.evidence)
        /\ prev.is_verified)
    => last.is_verified

\* C29: for a concept with axes in [0, 1], rate >= 0 and H in [0, 1], decay
\* leaves P and J no higher than they were.
C29_DecayNeverRaises ==
    (IsNetwork /\ last.op = "decay" /\ last.rate >= 0 /\ last.H \in 0..SCALE
        /\ InUnit(last.pre.heap[last.id]))
    => /\ heap[last.id].P <= last.pre.heap[last.id].P
       /\ heap[last.id].J <= last.pre.heap[last.id].J

\* C30: over 2 or more concepts whose P and W lie in [0, 1], the product
\* computed by check_uncertainty is at most 0.25, hence below the uncertainty
\* bound, and satisfied = true comes only with a product below 0.01.
C30_ProductAtMostQuarter ==
    (last.op = "check_uncertainty" /\ Len(last.pre.concepts) >= 2
        /\ \A i \in DOMAIN last.pre.heap : InUnit(last.pre.heap[i]))
    => /\ last.result.product <= 2500
       /\ last.result.product < UNCERTAINTY_BOUND
       /\ last.result.satisfied => last.result.product < 100

C30_Witness ==
    /\ last.op = "check_uncertainty"
    /\ Len(last.pre.concepts) >= 2
    /\ \A i \in DOMAIN last.pre.heap : InUnit(last.pre.heap[i])
    /\ last.result.product = 2500
    /\ ~last.result.satisfied

====
